---- MODULE Spec2Model ----
(***************************************************************************)
(* A model of AsmTestRunner::execute_process and                           *)
(* AsmTestRunner::execute_with_strace (src/src/x86_asm_test.cpp): one      *)
(* call of the runner, the three pipes it creates, the child it forks and  *)
(* the select/read loop that captures the child's output under a timeout.  *)
(*                                                                         *)
(* The parent (the runner) is a sequential program: `pc` is its position.  *)
(* The child, its descendants and the operating system are the             *)
(* environment: every step they can take is an action of its own.  Time is *)
(* discrete and measured by the only clock the runner consults, the        *)
(* timeout of select(): it advances while the parent is blocked in         *)
(* select(), the parent's own statements taking no time.  An action of the *)
(* parent runs from one system call that can block, or that races with the *)
(* child, to the next: write(), select(), kill(), waitpid().               *)
(*                                                                         *)
(* Spec is one call on a constructed runner.  RunnerSpec puts the          *)
(* constructor before it and lets call follow call on the same runner.     *)
(* MatchSpec applies ExpectedOutput::matches and                           *)
(* ExpectedOutput::get_mismatch_description to results.  ConcSpec runs two *)
(* calls at once in two threads of one process.  TimedSpec is MatchSpec    *)
(* on results that carry their execution time and may have timed out.      *)
(* ArgvSpec builds the command line of the child from the trace flags and  *)
(* the caller's arguments.  AssertSpec is one call of assert_output: the   *)
(* call of Spec, then the comparison of its result with an expectation.    *)
(***************************************************************************)
EXTENDS Naturals, Integers, Sequences, FiniteSets, TLC

(***************************************************************************)
(* Bounds of the model.                                                    *)
(***************************************************************************)
\* config_.timeout, in ticks of the model's clock
Timeout == 2
\* capacity of a pipe, in bytes
PipeCap == 2
\* most bytes one read() returns (sizeof(buffer) - 1 in the code)
ReadMax == 1
\* longest stdin payload
MaxIn == 3
\* most bytes the child writes on one output stream
MaxOut == 2

(***************************************************************************)
(* Program constants.                                                      *)
(***************************************************************************)
SIGKILL == 9
ExecFailureCode == 127
SignalBase == 128

\* exit values a child may choose; 137 is the value that collides with the
\* encoding of a forced kill
ExitValues == {0, 137}
\* signals that may terminate the child from outside the runner (SIGTERM)
ExternalSignals == {15}

\* std::optional<std::string>
NoData == [has_value |-> FALSE, data |-> <<>>]
Some(s) == [has_value |-> TRUE, data |-> s]
\* The stdin payload of length n: byte i is i - 1, so the first byte is NUL
\* and no two positions hold the same byte.
Payload(n) == [i \in 1..n |-> i - 1]
StdinInputs == {NoData} \cup {Some(Payload(n)) : n \in {0, MaxIn}}

\* The runner never inspects the bytes it relays, so the k-th byte the child
\* writes on a stream is fixed by its position: NUL and non-NUL bytes
\* alternate, and the two streams use different non-NUL bytes.
OutByte(k) == IF k % 2 = 1 THEN 0 ELSE 1
ErrByte(k) == IF k % 2 = 1 THEN 2 ELSE 0

Min(a, b) == IF a < b THEN a ELSE b
Take(s, n) == SubSeq(s, 1, Min(n, Len(s)))
Drop(s, n) == SubSeq(s, Min(n, Len(s)) + 1, Len(s))
IsPrefix(s, t) == Len(s) <= Len(t) /\ SubSeq(t, 1, Len(s)) = s

VARIABLES
    \* ---- configuration and arguments of the call
    use_strace,       \* config_.use_strace
    capture_stderr,   \* config_.capture_stderr
    stdin_data,       \* the optional stdin payload
    \* ---- the parent
    pc,               \* position of the parent in execute_process
    pfds,             \* pipe ends open in the parent
    nWritten,         \* bytes of stdin_data the blocked write() has delivered
    stdout_open,
    stderr_open,
    result,           \* the ExecutionResult under construction
    thrown,           \* the exception leaving the call, or "none"
    \* ---- the child and its descendants
    cstate,           \* "none", "forked", "running", "zombie", "reaped"
    cstatus,          \* the wait status of the child
    cexec,            \* how the child's chdir/exec went
    cfds,             \* pipe ends the child holds
    dfds,             \* pipe ends descendants of the child hold
    \* ---- the pipes
    inPipe,
    outPipe,
    errPipe,
    \* ---- time
    waited,           \* ticks the current select() has waited
    elapsed,          \* ticks since the read loop began, up to Timeout + 1
    \* ---- history
    outWritten,       \* all bytes the child wrote to stdout
    errWritten,       \* all bytes the child wrote to stderr
    childRead,        \* all bytes the child read from stdin
    killSent,         \* the runner has called kill(pid, SIGKILL)
    waitFailed,       \* a select() of the call has returned -1
    cstateAtExpiry,   \* cstate when a select() of the call returned 0
    \* ---- the runner object and the file it names
    path_status,      \* what the file system says of executable_path_
    syntax_,          \* AsmTestRunner::syntax_
    reused,           \* the runner has completed an execute call before
    \* ---- an ExpectedOutput and what was computed from it
    expected,         \* the five fields of the ExpectedOutput
    matched,          \* whether matches(result) was called, and its value
    description,      \* whether get_mismatch_description(result) was
                      \* called, and the entries of the text it returned
    \* ---- two execute calls running at once in two threads of one process
    tpc,              \* position of each thread in execute_process
    fdtable,          \* the pipe ends open in the process, by call
    kstate,           \* each call's child: "none", "running", "zombie",
                      \* "reaped"
    kfds,             \* the pipe ends each call's child holds, by call
    tpipe,            \* the bytes in each call's stdout pipe
    topen,            \* each thread's stdout_open and stderr_open
    tresult,          \* each thread's result: stdout_output, timed_out
    \* ---- the caller's side of a call
    strace_options,   \* config_.strace_options
    args,             \* the arguments the caller passes
    exec_args,        \* the vector the child hands to execv / execvp
    argv,             \* the command line the executed program receives
    failure           \* the test failure assert_output has reported

vars == <<use_strace, capture_stderr, stdin_data, pc, pfds, nWritten,
          stdout_open, stderr_open, result, thrown, cstate,
          cstatus, cexec, cfds, dfds, inPipe, outPipe, errPipe, waited,
          elapsed, outWritten, errWritten, childRead, killSent,
          waitFailed, cstateAtExpiry, path_status, syntax_, reused,
          expected, matched, description, tpc, fdtable, kstate, kfds,
          tpipe, topen, tresult, strace_options, args, exec_args, argv,
          failure>>

parentVars == <<pc, pfds, nWritten, stdout_open, stderr_open, result,
                thrown>>
configVars == <<use_strace, capture_stderr, stdin_data>>
childVars == <<cstate, cstatus, cexec, cfds, dfds>>
pipeVars == <<inPipe, outPipe, errPipe>>
timeVars == <<waited, elapsed>>
histVars == <<outWritten, errWritten, childRead, killSent, waitFailed,
              cstateAtExpiry>>
runnerVars == <<path_status, syntax_, reused>>
expectVars == <<expected, matched, description>>
concVars == <<tpc, fdtable, kstate, kfds, tpipe, topen, tresult>>
\* what no step of an execute call touches
callerVars == <<strace_options, args, exec_args, argv, failure>>
outerVars == <<runnerVars, expectVars, concVars, callerVars>>

AllFds == {"out_r", "out_w", "err_r", "err_w", "in_r", "in_w"}

\* struct ExecutionResult, as default-constructed (execution_time, which
\* the runner sets and prints but never tests, is left out)
ExecutionResult ==
    [exit_code |-> 0, stdout_output |-> <<>>, stderr_output |-> <<>>,
     timed_out |-> FALSE]

\* std::optional<int>
NoCode == [has_value |-> FALSE, value |-> 0]
SomeCode(c) == [has_value |-> TRUE, value |-> c]

\* class ExpectedOutput, as default-constructed: nothing is specified
ExpectedOutput ==
    [expected_exit_code |-> NoCode, exact_stdout |-> NoData,
     exact_stderr |-> NoData, stdout_contains |-> <<>>,
     stderr_contains |-> <<>>]

\* matches and get_mismatch_description have not been called
NotMatched == [called |-> FALSE, value |-> FALSE]
NotDescribed == [called |-> FALSE, entries |-> <<>>]

\* what std::filesystem::exists, std::filesystem::is_regular_file and
\* access(X_OK) answer for a path
PathStatus(e, r, x) == [exists |-> e, is_regular_file |-> r, x_ok |-> x]
\* a regular file with execute permission
Executable == PathStatus(TRUE, TRUE, TRUE)
\* no file of that name
Missing == PathStatus(FALSE, FALSE, FALSE)
\* the paths a runner can be constructed on: a missing one, a directory
\* without and with search permission, a regular file without and with
\* execute permission
PathStatuses ==
    {Missing, PathStatus(TRUE, FALSE, FALSE), PathStatus(TRUE, FALSE, TRUE),
     PathStatus(TRUE, TRUE, FALSE), Executable}

\* the two concurrent calls
Calls == {"A", "B"}

\* the pipe ends of call c, as entries of the process's descriptor table
EndsOf(c) == {<<c, "out_r">>, <<c, "out_w">>, <<c, "err_r">>,
              <<c, "err_w">>, <<c, "in_r">>, <<c, "in_w">>}

\* no concurrent call has started
NoThreads ==
    /\ tpc = [c \in Calls |-> "call"]
    /\ fdtable = {}
    /\ kstate = [c \in Calls |-> "none"]
    /\ kfds = [c \in Calls |-> {}]
    /\ tpipe = [c \in Calls |-> <<>>]
    /\ topen = [c \in Calls |-> [stdout_open |-> TRUE, stderr_open |-> TRUE]]
    /\ tresult = [c \in Calls |-> [stdout_output |-> <<>>,
                                   timed_out |-> FALSE]]

\* no test failure has been reported
NoFailure == [failed |-> FALSE, message |-> <<>>]

\* a call without trace flags and without arguments, whose command line has
\* not been built, made outside assert_output
NoCaller ==
    /\ strace_options = <<>>
    /\ args = <<>>
    /\ exec_args = <<>>
    /\ argv = <<>>
    /\ failure = NoFailure

\* enum class AsmSyntax
AsmSyntax == {"Intel", "ATT"}

NoStatus == [kind |-> "none", val |-> 0]
Exited(v) == [kind |-> "exited", val |-> v]
Signaled(s) == [kind |-> "signaled", val |-> s]

Init ==
    /\ use_strace \in BOOLEAN
    /\ capture_stderr \in BOOLEAN
    /\ stdin_data \in StdinInputs
    /\ pc = "call"
    /\ pfds = {}
    /\ nWritten = 0
    /\ stdout_open = TRUE
    /\ stderr_open = TRUE
    /\ result = ExecutionResult
    /\ thrown = "none"
    /\ cstate = "none"
    /\ cstatus = NoStatus
    /\ cexec = "none"
    /\ cfds = {}
    /\ dfds = {}
    /\ inPipe = <<>>
    /\ outPipe = <<>>
    /\ errPipe = <<>>
    /\ waited = 0
    /\ elapsed = 0
    /\ outWritten = <<>>
    /\ errWritten = <<>>
    /\ childRead = <<>>
    /\ killSent = FALSE
    /\ waitFailed = FALSE
    /\ cstateAtExpiry = "none"
    /\ path_status = Executable
    /\ syntax_ = "Intel"
    /\ reused = FALSE
    /\ expected = ExpectedOutput
    /\ matched = NotMatched
    /\ description = NotDescribed
    /\ NoThreads
    /\ NoCaller
(***************************************************************************)
(* Helpers on pipes and wait statuses.                                     *)
(***************************************************************************)
\* some process still holds the pipe end fd
HasHolder(fd) == fd \in (pfds \cup cfds \cup dfds)

WriteEnd(fd) == IF fd = "out_r" THEN "out_w" ELSE "err_w"
PipeOf(fd) == IF fd = "out_r" THEN outPipe ELSE errPipe

\* select() reports a read end readable when data is buffered or when every
\* write end is closed (read() then returns 0)
Readable(fd) == Len(PipeOf(fd)) > 0 \/ ~HasHolder(WriteEnd(fd))

\* the stdin payload the call has to write, if any:
\* stdin_data.has_value() && !stdin_data->empty()
HasStdin == stdin_data.has_value /\ Len(stdin_data.data) > 0

\* DecodeStatus with the signal number returned as it is, 128 not added
DecodeStatus_NoSignalBase(status, old) ==
    IF status.kind = "exited" THEN status.val
    ELSE IF status.kind = "signaled" THEN status.val
    ELSE old

\* WIFEXITED / WEXITSTATUS / WIFSIGNALED / WTERMSIG applied to the reaped
\* status; `old` is the exit_code the result held before
DecodeStatus(status, old) ==
    IF status.kind = "exited" THEN status.val
    ELSE IF status.kind = "signaled" THEN SignalBase + status.val
    ELSE old

\* the fd_set execute_process builds before select()
FdSetPlain(so, se) ==
    (IF so THEN {"out_r"} ELSE {})
    \cup (IF se /\ capture_stderr THEN {"err_r"} ELSE {})

\* the fd_set execute_with_strace builds before select()
FdSetStrace(so, se) ==
    (IF so THEN {"out_r"} ELSE {})
    \cup (IF se THEN {"err_r"} ELSE {})

FdSet(so, se) == IF use_strace THEN FdSetStrace(so, se) ELSE FdSetPlain(so, se)

\* while (stdout_open || stderr_open) { ...; if (max_fd == -1) break; ...
\* the loop goes on to another select()
LoopContinues(so, se) == (so \/ se) /\ FdSet(so, se) # {}

\* the monitored descriptors select() would report readable now
Ready == {fd \in FdSet(stdout_open, stderr_open) : Readable(fd)}

\* ReadInto putting the bytes read in front of the accumulator
ReadInto_Prepends(cond, pipe, acc, open) ==
    IF cond
    THEN LET bytes_read == Min(Len(pipe), ReadMax)
         IN IF bytes_read > 0
            THEN [pipe |-> Drop(pipe, bytes_read),
                  acc |-> Take(pipe, bytes_read) \o acc,
                  open |-> open]
            ELSE [pipe |-> pipe, acc |-> acc, open |-> FALSE]
    ELSE [pipe |-> pipe, acc |-> acc, open |-> open]

\* one read(fd, buffer, sizeof(buffer) - 1) guarded by `cond`, and what the
\* code does with bytes_read: append the bytes, or mark the stream closed
ReadInto(cond, pipe, acc, open) ==
    IF cond
    THEN LET bytes_read == Min(Len(pipe), ReadMax)
         IN IF bytes_read > 0
            THEN [pipe |-> Drop(pipe, bytes_read),
                  acc |-> acc \o Take(pipe, bytes_read),
                  open |-> open]
            ELSE [pipe |-> pipe, acc |-> acc, open |-> FALSE]
    ELSE [pipe |-> pipe, acc |-> acc, open |-> open]

\* if (stdout_open && FD_ISSET(stdout_pipe[0], &read_fds)) { read ... }
ReadStdout(read_fds) ==
    ReadInto(stdout_open /\ "out_r" \in read_fds,
             outPipe, result.stdout_output, stdout_open)

\* if (stderr_open && config_.capture_stderr && FD_ISSET(stderr_pipe[0], ...
\* in execute_process; execute_with_strace does not test capture_stderr
ReadStderr(read_fds) ==
    ReadInto(stderr_open /\ (use_strace \/ capture_stderr)
                 /\ "err_r" \in read_fds,
             errPipe, result.stderr_output, stderr_open)

\* a process terminates: every descriptor it holds is closed
Terminated(status) ==
    /\ cstate' = "zombie"
    /\ cstatus' = status
    /\ cfds' = {}

(***************************************************************************)
(* The parent: execute_process / execute_with_strace.                      *)
(***************************************************************************)
\* pipe(stdout_pipe) == -1 || pipe(stderr_pipe) == -1 || pipe(stdin_pipe) == -1
\* with k = 0 when the three calls succeed and k = 1, 2, 3 the call that
\* fails: the pipes created before it stay open
PipesOpenedBefore(k) ==
    IF k = 1 THEN {}
    ELSE IF k = 2 THEN {"out_r", "out_w"}
    ELSE IF k = 3 THEN {"out_r", "out_w", "err_r", "err_w"}
    ELSE AllFds

PipeError ==
    IF use_strace THEN "Failed to create pipes for strace execution"
    ELSE "Failed to create pipes"

ForkError ==
    IF use_strace THEN "Fork failed for strace execution" ELSE "Fork failed"

CreatePipes ==
    /\ pc = "call"
    /\ \E k \in 0..3 :
        /\ pfds' = PipesOpenedBefore(k)
        /\ IF k = 0
           THEN pc' = "fork" /\ thrown' = thrown
           ELSE pc' = "threw" /\ thrown' = PipeError
    /\ UNCHANGED <<nWritten, stdout_open, stderr_open, result>>
    /\ UNCHANGED <<outerVars, configVars, childVars, pipeVars,
                   timeVars, histVars>>

\* ForkFails returning a default-constructed result instead of throwing
ForkFails_ReturnsResult ==
    /\ pc = "fork"
    /\ pfds' = {}
    /\ pc' = "done"
    /\ UNCHANGED <<nWritten, stdout_open, stderr_open, result, thrown>>
    /\ UNCHANGED <<outerVars, configVars, childVars, pipeVars,
                   timeVars, histVars>>

\* fork() returns -1: the six descriptors are closed and the call throws
ForkFails ==
    /\ pc = "fork"
    /\ pfds' = {}
    /\ pc' = "threw"
    /\ thrown' = ForkError
    /\ UNCHANGED <<nWritten, stdout_open, stderr_open, result>>
    /\ UNCHANGED <<outerVars, configVars, childVars, pipeVars,
                   timeVars, histVars>>

\* fork() succeeds.  The child, after its dup2() and close() calls, holds the
\* write ends of stdout and stderr and the read end of stdin; the parent
\* closes its copies of these three ends and reaches the write of stdin.
ForkOk ==
    /\ pc = "fork"
    /\ cstate' = "forked"
    /\ cfds' = {"out_w", "err_w", "in_r"}
    /\ pfds' = pfds \ {"out_w", "err_w", "in_r"}
    /\ pc' = "write_stdin"
    /\ UNCHANGED <<cstatus, cexec, dfds>>
    /\ UNCHANGED <<nWritten, stdout_open, stderr_open, result, thrown>>
    /\ UNCHANGED <<outerVars, configVars, pipeVars, timeVars, histVars>>

\* close(stdin_pipe[1]), then the first evaluation of the loop condition and
\* the first call of select(), which is given the full configured timeout
CloseStdinEnterLoop ==
    /\ pfds' = pfds \ {"in_w"}
    /\ pc' = "select"
    /\ waited' = 0

\* no stdin payload (absent or empty): nothing is written
WriteStdinSkip ==
    /\ pc = "write_stdin"
    /\ ~HasStdin
    /\ CloseStdinEnterLoop
    /\ UNCHANGED <<nWritten, stdout_open, stderr_open, result, thrown>>
    /\ UNCHANGED <<elapsed>>
    /\ UNCHANGED <<outerVars, configVars, childVars, pipeVars, histVars>>

\* WriteStdin as a write that returns after moving what fits into the pipe,
\* the rest of the payload being dropped
WriteStdin_Short ==
    /\ pc = "write_stdin"
    /\ HasStdin
    /\ HasHolder("in_r")
    /\ Len(inPipe) < PipeCap
    /\ LET n == Min(PipeCap - Len(inPipe), Len(stdin_data.data) - nWritten)
       IN /\ inPipe' = inPipe \o SubSeq(stdin_data.data, nWritten + 1,
                                        nWritten + n)
          /\ nWritten' = nWritten + n
          /\ CloseStdinEnterLoop
    /\ UNCHANGED <<stdout_open, stderr_open, result, thrown>>
    /\ UNCHANGED <<outPipe, errPipe, elapsed>>
    /\ UNCHANGED <<outerVars, configVars, childVars, histVars>>

\* the blocking write(stdin_pipe[1], ...): it moves what fits into the pipe
\* and returns only when the whole payload has been moved
WriteStdin ==
    /\ pc = "write_stdin"
    /\ HasStdin
    /\ HasHolder("in_r")
    /\ Len(inPipe) < PipeCap
    /\ LET n == Min(PipeCap - Len(inPipe), Len(stdin_data.data) - nWritten)
       IN /\ inPipe' = inPipe \o SubSeq(stdin_data.data, nWritten + 1,
                                        nWritten + n)
          /\ nWritten' = nWritten + n
          /\ IF nWritten + n = Len(stdin_data.data)
             THEN CloseStdinEnterLoop
             ELSE UNCHANGED <<pc, pfds, waited>>
    /\ UNCHANGED <<stdout_open, stderr_open, result, thrown>>
    /\ UNCHANGED <<outPipe, errPipe, elapsed>>
    /\ UNCHANGED <<outerVars, configVars, childVars, histVars>>

\* write() on a pipe nobody can read any more raises SIGPIPE: with the
\* default disposition the calling process is terminated; with SIGPIPE
\* ignored the write fails with EPIPE, which the code does not look at
WriteStdinNoReader ==
    /\ pc = "write_stdin"
    /\ HasStdin
    /\ ~HasHolder("in_r")
    /\ \/ pc' = "sigpipe" /\ UNCHANGED <<pfds, waited>>
       \/ CloseStdinEnterLoop
    /\ UNCHANGED <<nWritten, stdout_open, stderr_open, result, thrown>>
    /\ UNCHANGED <<elapsed>>
    /\ UNCHANGED <<outerVars, configVars, childVars, pipeVars, histVars>>

\* the loop is left: close(stdout_pipe[0]); close(stderr_pipe[0]); and the
\* parent reaches waitpid()
LeaveLoop ==
    /\ pfds' = pfds \ {"out_r", "err_r"}
    /\ pc' = "waitpid"

\* select() returns > 0: the readable descriptors are read, the loop
\* condition is evaluated again and select() is called again, with the full
\* configured timeout, or the loop is left
SelectReady ==
    /\ pc = "select"
    /\ Ready # {}
    /\ LET out == ReadStdout(Ready)
           err == ReadStderr(Ready)
       IN /\ outPipe' = out.pipe
          /\ errPipe' = err.pipe
          /\ stdout_open' = out.open
          /\ stderr_open' = err.open
          /\ result' = [result EXCEPT !.stdout_output = out.acc,
                                      !.stderr_output = err.acc]
          /\ IF LoopContinues(out.open, err.open)
             THEN pc' = "select" /\ waited' = 0 /\ pfds' = pfds
             ELSE LeaveLoop /\ waited' = waited
    /\ UNCHANGED <<nWritten, thrown, inPipe, elapsed>>
    /\ UNCHANGED <<outerVars, configVars, childVars, histVars>>

\* select() returns 0: nothing became readable within timeout_val;
\* result.timed_out = true and the parent reaches kill()
SelectTimeout ==
    /\ pc = "select"
    /\ Ready = {}
    /\ waited >= Timeout
    /\ result' = [result EXCEPT !.timed_out = TRUE]
    /\ pc' = "kill"
    /\ cstateAtExpiry' = cstate
    /\ UNCHANGED <<pfds, nWritten, stdout_open, stderr_open, thrown>>
    /\ UNCHANGED <<outWritten, errWritten, childRead, killSent, waitFailed>>
    /\ UNCHANGED <<outerVars, configVars, childVars, pipeVars, timeVars>>

\* select() returns -1 in execute_process: break, nothing else
SelectErrorPlain ==
    /\ pc = "select"
    /\ ~use_strace
    /\ waitFailed' = TRUE
    /\ LeaveLoop
    /\ UNCHANGED <<nWritten, stdout_open, stderr_open, result, thrown>>
    /\ UNCHANGED <<outWritten, errWritten, childRead, killSent,
                   cstateAtExpiry>>
    /\ UNCHANGED <<outerVars, configVars, childVars, pipeVars, timeVars>>

\* select() returns -1 in execute_with_strace: select_result <= 0 goes on to
\* kill(pid, SIGKILL) without setting timed_out
SelectErrorStrace ==
    /\ pc = "select"
    /\ use_strace
    /\ waitFailed' = TRUE
    /\ pc' = "kill"
    /\ UNCHANGED <<pfds, nWritten, stdout_open, stderr_open, result, thrown>>
    /\ UNCHANGED <<outWritten, errWritten, childRead, killSent,
                   cstateAtExpiry>>
    /\ UNCHANGED <<outerVars, configVars, childVars, pipeVars, timeVars>>

\* KillChild followed by a last read of what is left in the stdout pipe
KillChild_Drains ==
    /\ pc = "kill"
    /\ killSent' = TRUE
    /\ IF cstate \in {"forked", "running"}
       THEN Terminated(Signaled(SIGKILL))
       ELSE UNCHANGED <<cstate, cstatus, cfds>>
    /\ LeaveLoop
    /\ result' = [result EXCEPT !.stdout_output = @ \o outPipe]
    /\ outPipe' = <<>>
    /\ UNCHANGED <<cexec, dfds>>
    /\ UNCHANGED <<nWritten, stdout_open, stderr_open, thrown>>
    /\ UNCHANGED <<outWritten, errWritten, childRead, waitFailed,
                   cstateAtExpiry>>
    /\ UNCHANGED <<outerVars, configVars, inPipe, errPipe, timeVars>>

\* kill(pid, SIGKILL); break;  A child that has already terminated (a zombie)
\* is not affected by the signal.
KillChild ==
    /\ pc = "kill"
    /\ killSent' = TRUE
    /\ IF cstate \in {"forked", "running"}
       THEN Terminated(Signaled(SIGKILL))
       ELSE UNCHANGED <<cstate, cstatus, cfds>>
    /\ LeaveLoop
    /\ UNCHANGED <<cexec, dfds>>
    /\ UNCHANGED <<nWritten, stdout_open, stderr_open, result, thrown>>
    /\ UNCHANGED <<outWritten, errWritten, childRead, waitFailed,
                   cstateAtExpiry>>
    /\ UNCHANGED <<outerVars, configVars, pipeVars, timeVars>>

\* WaitPid as a wait that does not block: a child that has not terminated
\* is left as it is and the result returned with the exit code it has
WaitPid_NoHang ==
    /\ pc = "waitpid"
    /\ IF cstate = "zombie"
       THEN /\ cstate' = "reaped"
            /\ result' = [result EXCEPT
                              !.exit_code = DecodeStatus(cstatus, @)]
       ELSE UNCHANGED <<cstate, result>>
    /\ pc' = "done"
    /\ UNCHANGED <<cstatus, cexec, cfds, dfds>>
    /\ UNCHANGED <<pfds, nWritten, stdout_open, stderr_open, thrown>>
    /\ UNCHANGED <<outerVars, configVars, pipeVars, timeVars, histVars>>

\* waitpid(pid, &status, 0) returns once the child has terminated; the
\* status is decoded and the result returned
WaitPid ==
    /\ pc = "waitpid"
    /\ cstate = "zombie"
    /\ cstate' = "reaped"
    /\ result' = [result EXCEPT !.exit_code = DecodeStatus(cstatus, @)]
    /\ pc' = "done"
    /\ UNCHANGED <<cstatus, cexec, cfds, dfds>>
    /\ UNCHANGED <<pfds, nWritten, stdout_open, stderr_open, thrown>>
    /\ UNCHANGED <<outerVars, configVars, pipeVars, timeVars, histVars>>
(***************************************************************************)
(* The child: the code between fork() and exec, then whatever the executed *)
(* program does with its three streams.  Steps of the child that the       *)
(* parent cannot observe are left out: reads of stdin once the parent has  *)
(* stopped writing, and any use of the output streams once the parent has  *)
(* closed its read ends.                                                   *)
(***************************************************************************)
\* the child exists and the call has not returned
Alive == pc \in {"write_stdin", "select", "kill", "waitpid"}

\* the parent still holds its read ends of the output pipes
Observed == pc \in {"write_stdin", "select", "kill"}

\* perror(...) on the child's stderr, which is the pipe, then _exit(127)
PerrorExit(how) ==
    /\ cexec' = how
    /\ errPipe' = Append(errPipe, ErrByte(Len(errWritten) + 1))
    /\ errWritten' = Append(errWritten, ErrByte(Len(errWritten) + 1))
    /\ Terminated(Exited(ExecFailureCode))
    /\ UNCHANGED <<dfds, inPipe, outPipe, outWritten, childRead, killSent,
                   waitFailed, cstateAtExpiry>>
    /\ UNCHANGED <<outerVars, configVars, parentVars, timeVars>>

\* chdir(config_.working_directory) fails in the child
ChildChdirFails ==
    /\ Observed
    /\ cstate = "forked"
    /\ PerrorExit("chdir_failed")

\* execv(executable_path_) / execvp("strace") returns: the program (in trace
\* mode the trace utility) could not be executed
ChildExecFails ==
    /\ Observed
    /\ cstate = "forked"
    /\ PerrorExit("exec_failed")

\* exec succeeds: the program runs with the three pipes as its streams
ChildExecOk ==
    /\ Alive
    /\ cstate = "forked"
    /\ use_strace \/ path_status = Executable
    /\ cstate' = "running"
    /\ cexec' = "ok"
    /\ UNCHANGED <<cstatus, cfds, dfds>>
    /\ UNCHANGED <<outerVars, configVars, parentVars, pipeVars,
                   timeVars, histVars>>

\* the program writes its next byte to standard output
ChildWriteOut ==
    /\ Observed
    /\ cstate = "running"
    /\ "out_w" \in cfds
    /\ Len(outPipe) < PipeCap
    /\ Len(outWritten) < MaxOut
    /\ outPipe' = Append(outPipe, OutByte(Len(outWritten) + 1))
    /\ outWritten' = Append(outWritten, OutByte(Len(outWritten) + 1))
    /\ UNCHANGED <<inPipe, errPipe, errWritten, childRead, killSent,
                   waitFailed, cstateAtExpiry>>
    /\ UNCHANGED <<outerVars, configVars, parentVars, childVars, timeVars>>

\* the program writes its next byte to standard error
ChildWriteErr ==
    /\ Observed
    /\ cstate = "running"
    /\ "err_w" \in cfds
    /\ Len(errPipe) < PipeCap
    /\ Len(errWritten) < MaxOut
    /\ errPipe' = Append(errPipe, ErrByte(Len(errWritten) + 1))
    /\ errWritten' = Append(errWritten, ErrByte(Len(errWritten) + 1))
    /\ UNCHANGED <<inPipe, outPipe, outWritten, childRead, killSent,
                   waitFailed, cstateAtExpiry>>
    /\ UNCHANGED <<outerVars, configVars, parentVars, childVars, timeVars>>

\* the program reads one byte from standard input
ChildReadIn ==
    /\ pc = "write_stdin"
    /\ cstate = "running"
    /\ "in_r" \in cfds
    /\ Len(inPipe) > 0
    /\ childRead' = Append(childRead, Head(inPipe))
    /\ inPipe' = Tail(inPipe)
    /\ UNCHANGED <<outPipe, errPipe, outWritten, errWritten, killSent,
                   waitFailed, cstateAtExpiry>>
    /\ UNCHANGED <<outerVars, configVars, parentVars, childVars, timeVars>>

\* the program closes its standard input
ChildCloseIn ==
    /\ pc = "write_stdin"
    /\ cstate = "running"
    /\ "in_r" \in cfds
    /\ cfds' = cfds \ {"in_r"}
    /\ UNCHANGED <<cstate, cstatus, cexec, dfds>>
    /\ UNCHANGED <<outerVars, configVars, parentVars, pipeVars,
                   timeVars, histVars>>

\* the program closes its standard output or its standard error
ChildClose ==
    /\ Observed
    /\ cstate = "running"
    /\ \E fd \in cfds \cap {"out_w", "err_w"} : cfds' = cfds \ {fd}
    /\ UNCHANGED <<cstate, cstatus, cexec, dfds>>
    /\ UNCHANGED <<outerVars, configVars, parentVars, pipeVars,
                   timeVars, histVars>>

\* the program starts a descendant (in trace mode: the trace utility starts
\* the target), which inherits the output streams and outlives its parent
ChildFork ==
    /\ Observed
    /\ cstate = "running"
    /\ use_strace => path_status = Executable
    /\ dfds = {}
    /\ cfds \cap {"out_w", "err_w"} # {}
    /\ dfds' = cfds \cap {"out_w", "err_w"}
    /\ UNCHANGED <<cstate, cstatus, cexec, cfds>>
    /\ UNCHANGED <<outerVars, configVars, parentVars, pipeVars,
                   timeVars, histVars>>

\* the descendants terminate, closing the streams they inherited
DescExit ==
    /\ Observed
    /\ dfds # {}
    /\ dfds' = {}
    /\ UNCHANGED <<cstate, cstatus, cexec, cfds>>
    /\ UNCHANGED <<outerVars, configVars, parentVars, pipeVars,
                   timeVars, histVars>>

\* the program exits with a value of its choice
ChildExit ==
    /\ Alive
    /\ cstate = "running"
    /\ \E v \in ExitValues : Terminated(Exited(v))
    /\ UNCHANGED <<cexec, dfds>>
    /\ UNCHANGED <<outerVars, configVars, parentVars, pipeVars,
                   timeVars, histVars>>

\* the child is terminated by a signal that does not come from the runner
ExternalSignal ==
    /\ Alive
    /\ cstate \in {"forked", "running"}
    /\ \E sig \in ExternalSignals : Terminated(Signaled(sig))
    /\ UNCHANGED <<cexec, dfds>>
    /\ UNCHANGED <<outerVars, configVars, parentVars, pipeVars,
                   timeVars, histVars>>

(***************************************************************************)
(* Time.                                                                   *)
(***************************************************************************)
\* the parent is inside a select() that cannot return yet
Blocked == pc = "select" /\ Ready = {} /\ waited < Timeout

\* one tick of wall-clock time passes while the parent waits in select()
Tick ==
    /\ Blocked
    /\ waited' = waited + 1
    /\ elapsed' = Min(elapsed + 1, Timeout + 1)
    /\ UNCHANGED <<outerVars, configVars, parentVars, childVars,
                   pipeVars, histVars>>

Parent ==
    \/ CreatePipes
    \/ ForkFails
    \/ ForkOk
    \/ WriteStdinSkip
    \/ WriteStdin
    \/ WriteStdinNoReader
    \/ SelectReady
    \/ SelectTimeout
    \/ SelectErrorPlain
    \/ SelectErrorStrace
    \/ KillChild
    \/ WaitPid

Child ==
    \/ ChildChdirFails
    \/ ChildExecFails
    \/ ChildExecOk
    \/ ChildWriteOut
    \/ ChildWriteErr
    \/ ChildReadIn
    \/ ChildCloseIn
    \/ ChildClose
    \/ ChildFork
    \/ DescExit
    \/ ChildExit
    \/ ExternalSignal

Next == Parent \/ Child \/ Tick

Spec == Init /\ [][Next]_vars

\* The parent is a running program and the clock runs: a parent step that
\* stays possible is taken, and time passes while the parent waits.  Nothing
\* is assumed of the child.
FairSpec == Spec /\ WF_vars(Parent) /\ WF_vars(Tick)
(***************************************************************************)
(* The life of a runner: the constructor checks the path once, and the     *)
(* runner it yields serves one execute call after another.  Between calls  *)
(* the file may disappear and the owner may replace the configuration or   *)
(* the syntax.                                                             *)
(***************************************************************************)
SetupErrors ==
    {"Executable not found", "Path is not a regular file",
     "File is not executable"}

\* AsmTestRunner::AsmTestRunner with the access(X_OK) check left out
Construct_NoAccessCheck ==
    /\ pc = "construct"
    /\ IF ~path_status.exists
       THEN pc' = "setup_error" /\ thrown' = "Executable not found"
       ELSE IF ~path_status.is_regular_file
       THEN pc' = "setup_error" /\ thrown' = "Path is not a regular file"
       ELSE pc' = "call" /\ thrown' = thrown
    /\ UNCHANGED <<pfds, nWritten, stdout_open, stderr_open, result>>
    /\ UNCHANGED <<outerVars, configVars, childVars, pipeVars, timeVars,
                   histVars>>

\* AsmTestRunner::AsmTestRunner: the members are taken from the arguments,
\* then the three checks run in order and the first that fails throws
Construct ==
    /\ pc = "construct"
    /\ IF ~path_status.exists
       THEN pc' = "setup_error" /\ thrown' = "Executable not found"
       ELSE IF ~path_status.is_regular_file
       THEN pc' = "setup_error" /\ thrown' = "Path is not a regular file"
       ELSE IF ~path_status.x_ok
       THEN pc' = "setup_error" /\ thrown' = "File is not executable"
       ELSE pc' = "call" /\ thrown' = thrown
    /\ UNCHANGED <<pfds, nWritten, stdout_open, stderr_open, result>>
    /\ UNCHANGED <<outerVars, configVars, childVars, pipeVars, timeVars,
                   histVars>>

\* the file is removed after the runner was constructed on it
FileRemoved ==
    /\ pc = "call"
    /\ path_status # Missing
    /\ path_status' = Missing
    /\ UNCHANGED <<syntax_, reused, expectVars, concVars, callerVars>>
    /\ UNCHANGED <<configVars, parentVars, childVars, pipeVars, timeVars,
                   histVars>>

\* AsmTestRunner::set_config, called between two execute calls
SetConfig ==
    /\ pc = "call"
    /\ \E s \in BOOLEAN, c \in BOOLEAN :
        /\ <<s, c>> # <<use_strace, capture_stderr>>
        /\ use_strace' = s
        /\ capture_stderr' = c
    /\ UNCHANGED <<stdin_data, outerVars>>
    /\ UNCHANGED <<parentVars, childVars, pipeVars, timeVars, histVars>>

\* AsmTestRunner::set_syntax, called between two execute calls
SetSyntax ==
    /\ pc = "call"
    /\ \E x \in AsmSyntax \ {syntax_} : syntax_' = x
    /\ UNCHANGED <<path_status, reused, expectVars, concVars, callerVars>>
    /\ UNCHANGED <<configVars, parentVars, childVars, pipeVars, timeVars,
                   histVars>>

\* NextCall with the result of the call before carried into the next one
NextCall_KeepsResult ==
    /\ pc = "done"
    /\ pc' = "call"
    /\ reused' = TRUE
    /\ stdin_data' \in StdinInputs
    /\ pfds' = {}
    /\ nWritten' = 0
    /\ stdout_open' = TRUE
    /\ stderr_open' = TRUE
    /\ result' = result
    /\ thrown' = "none"
    /\ cstate' = "none"
    /\ cstatus' = NoStatus
    /\ cexec' = "none"
    /\ cfds' = {}
    /\ dfds' = {}
    /\ inPipe' = <<>>
    /\ outPipe' = <<>>
    /\ errPipe' = <<>>
    /\ waited' = 0
    /\ elapsed' = 0
    /\ outWritten' = <<>>
    /\ errWritten' = <<>>
    /\ childRead' = <<>>
    /\ killSent' = FALSE
    /\ waitFailed' = FALSE
    /\ cstateAtExpiry' = "none"
    /\ UNCHANGED <<use_strace, capture_stderr, path_status, syntax_,
                   expectVars, concVars, callerVars>>

\* the caller, holding the result of a call, makes the next call on the same
\* runner: execute_process starts again with locals of its own (result,
\* the pipe arrays, pid, the open flags) and the arguments of this call
NextCall ==
    /\ pc = "done"
    /\ pc' = "call"
    /\ reused' = TRUE
    /\ stdin_data' \in StdinInputs
    /\ pfds' = {}
    /\ nWritten' = 0
    /\ stdout_open' = TRUE
    /\ stderr_open' = TRUE
    /\ result' = ExecutionResult
    /\ thrown' = "none"
    /\ cstate' = "none"
    /\ cstatus' = NoStatus
    /\ cexec' = "none"
    /\ cfds' = {}
    /\ dfds' = {}
    /\ inPipe' = <<>>
    /\ outPipe' = <<>>
    /\ errPipe' = <<>>
    /\ waited' = 0
    /\ elapsed' = 0
    /\ outWritten' = <<>>
    /\ errWritten' = <<>>
    /\ childRead' = <<>>
    /\ killSent' = FALSE
    /\ waitFailed' = FALSE
    /\ cstateAtExpiry' = "none"
    /\ UNCHANGED <<use_strace, capture_stderr, path_status, syntax_,
                   expectVars, concVars, callerVars>>

\* the arguments of the constructor and the state of the path are free
RunnerInit ==
    /\ use_strace \in BOOLEAN
    /\ capture_stderr \in BOOLEAN
    /\ stdin_data \in StdinInputs
    /\ pc = "construct"
    /\ pfds = {}
    /\ nWritten = 0
    /\ stdout_open = TRUE
    /\ stderr_open = TRUE
    /\ result = ExecutionResult
    /\ thrown = "none"
    /\ cstate = "none"
    /\ cstatus = NoStatus
    /\ cexec = "none"
    /\ cfds = {}
    /\ dfds = {}
    /\ inPipe = <<>>
    /\ outPipe = <<>>
    /\ errPipe = <<>>
    /\ waited = 0
    /\ elapsed = 0
    /\ outWritten = <<>>
    /\ errWritten = <<>>
    /\ childRead = <<>>
    /\ killSent = FALSE
    /\ waitFailed = FALSE
    /\ cstateAtExpiry = "none"
    /\ path_status \in PathStatuses
    /\ syntax_ \in AsmSyntax
    /\ reused = FALSE
    /\ expected = ExpectedOutput
    /\ matched = NotMatched
    /\ description = NotDescribed
    /\ NoThreads
    /\ NoCaller

Owner ==
    \/ Construct
    \/ FileRemoved
    \/ SetConfig
    \/ SetSyntax
    \/ NextCall

RunnerNext == Owner \/ Next

RunnerSpec == RunnerInit /\ [][RunnerNext]_vars

(***************************************************************************)
(* ExpectedOutput: an expectation is built by the chained setters, then    *)
(* matches and get_mismatch_description are applied to a result.  The text *)
(* get_mismatch_description returns is kept as the sequence of its         *)
(* entries: for each, the format string written and the two values put     *)
(* into it.  Every format string has text of its own, so the returned text *)
(* is empty iff there is no entry.                                         *)
(***************************************************************************)
\* most patterns given to the two contains-setters together
MaxPatterns == 2

\* the byte strings of length at most n over the byte values in bytes
Strings(bytes, n) == UNION {[1..k -> bytes] : k \in 0..n}

\* the results matches is applied to: either exit code, any stdout over two
\* byte values, any stderr over one
Results ==
    [exit_code : {0, 1}, stdout_output : Strings({0, 1}, MaxOut),
     stderr_output : Strings({0}, MaxOut), timed_out : {FALSE}]

\* the strings given to the setters: the empty string, one byte, two bytes
Needles == {<<>>, <<0>>, <<1, 0>>}

\* text.find(pattern) != std::string::npos
Contains(text, pattern) ==
    \E pos \in 0..(Len(text) - Len(pattern)) :
        SubSeq(text, pos + 1, pos + Len(pattern)) = pattern

\* a pattern loop that is content with one pattern of the list being found
AllFound_AnyFound(text, patterns) ==
    \/ patterns = <<>>
    \/ \E i \in 1..Len(patterns) : Contains(text, patterns[i])

\* a pattern loop of matches: it returns false at the first pattern that is
\* not found, and falls through when there is none
AllFound(text, patterns) ==
    \A i \in 1..Len(patterns) : Contains(text, patterns[i])

\* matches without its last loop, the patterns required of stderr
Matches_NoStderrPatterns(e, r) ==
    IF e.expected_exit_code.has_value
       /\ r.exit_code # e.expected_exit_code.value
    THEN FALSE
    ELSE IF e.exact_stdout.has_value /\ r.stdout_output # e.exact_stdout.data
    THEN FALSE
    ELSE IF e.exact_stderr.has_value /\ r.stderr_output # e.exact_stderr.data
    THEN FALSE
    ELSE IF ~AllFound(r.stdout_output, e.stdout_contains)
    THEN FALSE
    ELSE TRUE

\* matches reading an exact stdout that was not given as the empty string
Matches_AbsentMeansEmpty(e, r) ==
    IF e.expected_exit_code.has_value
       /\ r.exit_code # e.expected_exit_code.value
    THEN FALSE
    ELSE IF r.stdout_output # e.exact_stdout.data
    THEN FALSE
    ELSE IF e.exact_stderr.has_value /\ r.stderr_output # e.exact_stderr.data
    THEN FALSE
    ELSE IF ~AllFound(r.stdout_output, e.stdout_contains)
    THEN FALSE
    ELSE IF ~AllFound(r.stderr_output, e.stderr_contains)
    THEN FALSE
    ELSE TRUE

\* matches refusing every result of a call that timed out
Matches_RejectsTimedOut(e, r) ==
    IF r.timed_out
    THEN FALSE
    ELSE IF e.expected_exit_code.has_value
       /\ r.exit_code # e.expected_exit_code.value
    THEN FALSE
    ELSE IF e.exact_stdout.has_value /\ r.stdout_output # e.exact_stdout.data
    THEN FALSE
    ELSE IF e.exact_stderr.has_value /\ r.stderr_output # e.exact_stderr.data
    THEN FALSE
    ELSE IF ~AllFound(r.stdout_output, e.stdout_contains)
    THEN FALSE
    ELSE IF ~AllFound(r.stderr_output, e.stderr_contains)
    THEN FALSE
    ELSE TRUE

\* ExpectedOutput::matches, its early returns in order
Matches(e, r) ==
    IF e.expected_exit_code.has_value
       /\ r.exit_code # e.expected_exit_code.value
    THEN FALSE
    ELSE IF e.exact_stdout.has_value /\ r.stdout_output # e.exact_stdout.data
    THEN FALSE
    ELSE IF e.exact_stderr.has_value /\ r.stderr_output # e.exact_stderr.data
    THEN FALSE
    ELSE IF ~AllFound(r.stdout_output, e.stdout_contains)
    THEN FALSE
    ELSE IF ~AllFound(r.stderr_output, e.stderr_contains)
    THEN FALSE
    ELSE TRUE

\* one thing written by get_mismatch_description: the format string, by
\* its name, with the expected and the actual value
Entry(name, exp, act) == [name |-> name, expected |-> exp, actual |-> act]

RECURSIVE MissingPatterns(_, _, _)
\* a pattern loop of get_mismatch_description: an entry for every pattern
\* of the list that is not found, in the order of the list
MissingPatterns(name, text, patterns) ==
    IF patterns = <<>> THEN <<>>
    ELSE (IF Contains(text, Head(patterns)) THEN <<>>
          ELSE <<Entry(name, Head(patterns), text)>>)
         \o MissingPatterns(name, text, Tail(patterns))

\* the first entry of a text only
FirstOf(entries) == IF entries = <<>> THEN <<>> ELSE <<Head(entries)>>

\* get_mismatch_description without the exit code block
GetMismatchDescription_NoExitCode(e, r) ==
    (IF e.exact_stdout.has_value /\ r.stdout_output # e.exact_stdout.data
     THEN <<Entry("Stdout mismatch", e.exact_stdout.data, r.stdout_output)>>
     ELSE <<>>)
    \o (IF e.exact_stderr.has_value
           /\ r.stderr_output # e.exact_stderr.data
        THEN <<Entry("Stderr mismatch", e.exact_stderr.data,
                     r.stderr_output)>>
        ELSE <<>>)
    \o MissingPatterns("Stdout missing pattern", r.stdout_output,
                       e.stdout_contains)
    \o MissingPatterns("Stderr missing pattern", r.stderr_output,
                       e.stderr_contains)

\* get_mismatch_description stopping after the first entry it writes
GetMismatchDescription_FirstOnly(e, r) ==
    FirstOf(
        (IF e.expected_exit_code.has_value
            /\ r.exit_code # e.expected_exit_code.value
         THEN <<Entry("Exit code mismatch", <<e.expected_exit_code.value>>,
                      <<r.exit_code>>)>>
         ELSE <<>>)
        \o (IF e.exact_stdout.has_value
               /\ r.stdout_output # e.exact_stdout.data
            THEN <<Entry("Stdout mismatch", e.exact_stdout.data,
                         r.stdout_output)>>
            ELSE <<>>)
        \o (IF e.exact_stderr.has_value
               /\ r.stderr_output # e.exact_stderr.data
            THEN <<Entry("Stderr mismatch", e.exact_stderr.data,
                         r.stderr_output)>>
            ELSE <<>>)
        \o MissingPatterns("Stdout missing pattern", r.stdout_output,
                           e.stdout_contains)
        \o MissingPatterns("Stderr missing pattern", r.stderr_output,
                           e.stderr_contains))

\* ExpectedOutput::get_mismatch_description: the five blocks in order, each
\* writing to the stream when its condition holds; the exit codes are
\* formatted as numbers (kept here as one-element sequences)
GetMismatchDescription(e, r) ==
    (IF e.expected_exit_code.has_value
        /\ r.exit_code # e.expected_exit_code.value
     THEN <<Entry("Exit code mismatch", <<e.expected_exit_code.value>>,
                  <<r.exit_code>>)>>
     ELSE <<>>)
    \o (IF e.exact_stdout.has_value /\ r.stdout_output # e.exact_stdout.data
        THEN <<Entry("Stdout mismatch", e.exact_stdout.data,
                     r.stdout_output)>>
        ELSE <<>>)
    \o (IF e.exact_stderr.has_value
           /\ r.stderr_output # e.exact_stderr.data
        THEN <<Entry("Stderr mismatch", e.exact_stderr.data,
                     r.stderr_output)>>
        ELSE <<>>)
    \o MissingPatterns("Stdout missing pattern", r.stdout_output,
                       e.stdout_contains)
    \o MissingPatterns("Stderr missing pattern", r.stderr_output,
                       e.stderr_contains)

\* the expectation is still being built: nothing was computed from it yet
Building == ~matched.called /\ ~description.called

\* ExpectedOutput::exit_code(code)
SetExitCode ==
    /\ Building
    /\ \E code \in {0, 1} :
        expected' = [expected EXCEPT !.expected_exit_code = SomeCode(code)]
    /\ expected' # expected
    /\ UNCHANGED <<matched, description, runnerVars, concVars, callerVars>>
    /\ UNCHANGED <<configVars, parentVars, childVars, pipeVars, timeVars,
                   histVars>>

\* ExpectedOutput::stdout_equals(expected)
StdoutEquals ==
    /\ Building
    /\ \E s \in Needles :
        expected' = [expected EXCEPT !.exact_stdout = Some(s)]
    /\ expected' # expected
    /\ UNCHANGED <<matched, description, runnerVars, concVars, callerVars>>
    /\ UNCHANGED <<configVars, parentVars, childVars, pipeVars, timeVars,
                   histVars>>

\* ExpectedOutput::stderr_equals(expected)
StderrEquals ==
    /\ Building
    /\ \E s \in Needles :
        expected' = [expected EXCEPT !.exact_stderr = Some(s)]
    /\ expected' # expected
    /\ UNCHANGED <<matched, description, runnerVars, concVars, callerVars>>
    /\ UNCHANGED <<configVars, parentVars, childVars, pipeVars, timeVars,
                   histVars>>

\* the patterns given so far
Patterns == Len(expected.stdout_contains) + Len(expected.stderr_contains)

\* ExpectedOutput::stdout_contains(pattern): emplace_back
StdoutContains ==
    /\ Building
    /\ Patterns < MaxPatterns
    /\ \E s \in Needles :
        expected' = [expected EXCEPT !.stdout_contains = Append(@, s)]
    /\ UNCHANGED <<matched, description, runnerVars, concVars, callerVars>>
    /\ UNCHANGED <<configVars, parentVars, childVars, pipeVars, timeVars,
                   histVars>>

\* ExpectedOutput::stderr_contains(pattern): emplace_back
StderrContains ==
    /\ Building
    /\ Patterns < MaxPatterns
    /\ \E s \in Needles :
        expected' = [expected EXCEPT !.stderr_contains = Append(@, s)]
    /\ UNCHANGED <<matched, description, runnerVars, concVars, callerVars>>
    /\ UNCHANGED <<configVars, parentVars, childVars, pipeVars, timeVars,
                   histVars>>

\* expected.matches(result) is called
CallMatches ==
    /\ ~matched.called
    /\ matched' = [called |-> TRUE, value |-> Matches(expected, result)]
    /\ UNCHANGED <<expected, description, runnerVars, concVars, callerVars>>
    /\ UNCHANGED <<configVars, parentVars, childVars, pipeVars, timeVars,
                   histVars>>

\* expected.get_mismatch_description(result) is called
CallDescribe ==
    /\ ~description.called
    /\ description' = [called |-> TRUE,
                       entries |-> GetMismatchDescription(expected, result)]
    /\ UNCHANGED <<expected, matched, runnerVars, concVars, callerVars>>
    /\ UNCHANGED <<configVars, parentVars, childVars, pipeVars, timeVars,
                   histVars>>

\* any result in the hands of the caller, and an expectation as constructed
MatchInit ==
    /\ use_strace = FALSE
    /\ capture_stderr = TRUE
    /\ stdin_data = NoData
    /\ pc = "done"
    /\ pfds = {}
    /\ nWritten = 0
    /\ stdout_open = FALSE
    /\ stderr_open = FALSE
    /\ result \in Results
    /\ thrown = "none"
    /\ cstate = "reaped"
    /\ cstatus = Exited(result.exit_code)
    /\ cexec = "ok"
    /\ cfds = {}
    /\ dfds = {}
    /\ inPipe = <<>>
    /\ outPipe = <<>>
    /\ errPipe = <<>>
    /\ waited = 0
    /\ elapsed = 0
    /\ outWritten = result.stdout_output
    /\ errWritten = result.stderr_output
    /\ childRead = <<>>
    /\ killSent = FALSE
    /\ waitFailed = FALSE
    /\ cstateAtExpiry = "none"
    /\ path_status = Executable
    /\ syntax_ = "Intel"
    /\ reused = FALSE
    /\ expected = ExpectedOutput
    /\ matched = NotMatched
    /\ description = NotDescribed
    /\ NoThreads
    /\ NoCaller

MatchNext ==
    \/ SetExitCode
    \/ StdoutEquals
    \/ StderrEquals
    \/ StdoutContains
    \/ StderrContains
    \/ CallMatches
    \/ CallDescribe

MatchSpec == MatchInit /\ [][MatchNext]_vars

(***************************************************************************)
(* Two execute calls at once on one runner, each in a thread of the same   *)
(* process.  The threads share the descriptor table of the process, and    *)
(* fork() gives the child a copy of the whole table.  Both calls are plain *)
(* calls without a stdin payload, no pipe() or fork() fails, each child    *)
(* writes to its standard output only, and time is left out: a select()    *)
(* with nothing ready may expire at any moment.                            *)
(***************************************************************************)
\* the variables of the single call and of the objects around it
singleVars == <<runnerVars, expectVars, configVars, parentVars, childVars,
                pipeVars, timeVars, histVars, callerVars>>

\* the byte by which the output of the child of call c is recognised
CallByte(c) == IF c = "A" THEN 0 ELSE 1

\* some process holds the pipe end e: the runner's, or a child
Held(e) == e \in fdtable \/ \E d \in Calls : e \in kfds[d]

\* select() of call c would report its stdout, its stderr, readable
OutReadable(c) == tpipe[c] # <<>> \/ ~Held(<<c, "out_w">>)
ErrReadable(c) == ~Held(<<c, "err_w">>)

\* the descriptors of call c that select() would report now
ReadyOf(c) ==
    {fd \in FdSetPlain(topen[c].stdout_open, topen[c].stderr_open) :
        IF fd = "out_r" THEN OutReadable(c) ELSE ErrReadable(c)}

\* pipe() three times in thread c: six new entries in the shared table
ThreadPipes ==
    \E c \in Calls :
        /\ tpc[c] = "call"
        /\ fdtable' = fdtable \cup EndsOf(c)
        /\ tpc' = [tpc EXCEPT ![c] = "fork"]
        /\ UNCHANGED <<kstate, kfds, tpipe, topen, tresult, singleVars>>

\* fork() in thread c and the child up to execv: the child has every
\* descriptor open in the process at that moment; it makes its own pipe ends
\* its streams 0, 1, 2 and closes the six originals, and nothing closes the
\* others, which stay open across execv (pipe() sets no close-on-exec)
ThreadFork ==
    \E c \in Calls :
        /\ tpc[c] = "fork"
        /\ kstate' = [kstate EXCEPT ![c] = "running"]
        /\ kfds' = [kfds EXCEPT ![c] =
                        {<<c, "in_r">>, <<c, "out_w">>, <<c, "err_w">>}
                        \cup (fdtable \ EndsOf(c))]
        /\ tpc' = [tpc EXCEPT ![c] = "close"]
        /\ UNCHANGED <<fdtable, tpipe, topen, tresult, singleVars>>

\* the parent side of thread c after fork(): it closes the three ends that
\* are the child's, and, there being no payload, the write end of stdin
ThreadCloses ==
    \E c \in Calls :
        /\ tpc[c] = "close"
        /\ fdtable' = fdtable \ {<<c, "in_r">>, <<c, "out_w">>,
                                 <<c, "err_w">>, <<c, "in_w">>}
        /\ tpc' = [tpc EXCEPT ![c] = "select"]
        /\ UNCHANGED <<kstate, kfds, tpipe, topen, tresult, singleVars>>

\* select() of thread c returns with something readable: the two guarded
\* reads, then the head of the loop; when the loop ends the read ends are
\* closed
ThreadSelectReady ==
    \E c \in Calls :
        /\ tpc[c] = "select"
        /\ ReadyOf(c) # {}
        /\ LET outData == "out_r" \in ReadyOf(c) /\ tpipe[c] # <<>>
               n == Min(Len(tpipe[c]), ReadMax)
               so == topen[c].stdout_open
                     /\ ("out_r" \in ReadyOf(c) => outData)
               se == topen[c].stderr_open /\ "err_r" \notin ReadyOf(c)
           IN /\ tpipe' = [tpipe EXCEPT ![c] =
                              IF outData THEN Drop(@, n) ELSE @]
              /\ tresult' = [tresult EXCEPT ![c].stdout_output =
                              IF outData THEN @ \o Take(tpipe[c], n) ELSE @]
              /\ topen' = [topen EXCEPT ![c] =
                              [stdout_open |-> so, stderr_open |-> se]]
              /\ IF (so \/ se) /\ FdSetPlain(so, se) # {}
                 THEN UNCHANGED <<tpc, fdtable>>
                 ELSE /\ tpc' = [tpc EXCEPT ![c] = "waitpid"]
                      /\ fdtable' = fdtable \ {<<c, "out_r">>, <<c, "err_r">>}
        /\ UNCHANGED <<kstate, kfds, singleVars>>

\* select() of thread c returns 0: timed_out, kill(pid, SIGKILL) on its own
\* child, break, and the read ends are closed
ThreadSelectTimeout ==
    \E c \in Calls :
        /\ tpc[c] = "select"
        /\ ReadyOf(c) = {}
        /\ tresult' = [tresult EXCEPT ![c].timed_out = TRUE]
        /\ IF kstate[c] = "running"
           THEN /\ kstate' = [kstate EXCEPT ![c] = "zombie"]
                /\ kfds' = [kfds EXCEPT ![c] = {}]
           ELSE UNCHANGED <<kstate, kfds>>
        /\ tpc' = [tpc EXCEPT ![c] = "waitpid"]
        /\ fdtable' = fdtable \ {<<c, "out_r">>, <<c, "err_r">>}
        /\ UNCHANGED <<tpipe, topen, singleVars>>

\* waitpid(pid, ...) of thread c returns once its child has terminated
ThreadWaitPid ==
    \E c \in Calls :
        /\ tpc[c] = "waitpid"
        /\ kstate[c] = "zombie"
        /\ kstate' = [kstate EXCEPT ![c] = "reaped"]
        /\ tpc' = [tpc EXCEPT ![c] = "done"]
        /\ UNCHANGED <<fdtable, kfds, tpipe, topen, tresult, singleVars>>

\* the child of call c writes a byte to its standard output
KidWrites ==
    \E c \in Calls :
        /\ kstate[c] = "running"
        /\ <<c, "out_r">> \in fdtable
        /\ Len(tpipe[c]) < PipeCap
        /\ Len(tpipe[c]) + Len(tresult[c].stdout_output) < MaxOut
        /\ tpipe' = [tpipe EXCEPT ![c] = Append(@, CallByte(c))]
        /\ UNCHANGED <<tpc, fdtable, kstate, kfds, topen, tresult,
                       singleVars>>

\* the child of call c exits: all it held is closed
KidExits ==
    \E c \in Calls :
        /\ kstate[c] = "running"
        /\ kstate' = [kstate EXCEPT ![c] = "zombie"]
        /\ kfds' = [kfds EXCEPT ![c] = {}]
        /\ UNCHANGED <<tpc, fdtable, tpipe, topen, tresult, singleVars>>

\* a constructed runner with a plain configuration, no call begun
ConcInit == Init /\ ~use_strace /\ stdin_data = NoData

ConcNext ==
    \/ ThreadPipes
    \/ ThreadFork
    \/ ThreadCloses
    \/ ThreadSelectReady
    \/ ThreadSelectTimeout
    \/ ThreadWaitPid
    \/ KidWrites
    \/ KidExits

ConcSpec == ConcInit /\ [][ConcNext]_vars

(***************************************************************************)
(* The command line of the child.  A string is a sequence of bytes; the    *)
(* strings of the caller hold no NUL, which a command line cannot carry.   *)
(* c_str() yields the bytes followed by a NUL, the vector handed to exec   *)
(* ends with a null pointer, and the executed program receives the entries *)
(* before the first null pointer, each up to its first NUL.                *)
(***************************************************************************)
\* most trace flags, and most arguments, of a call
MaxArgs == 2
\* longest trace flag or argument, in bytes
MaxArgLen == 1

\* the trace flags and arguments of the model: the empty string and the
\* strings over two byte values
ArgStrings == Strings({1, 2}, MaxArgLen)
ArgLists == UNION {[1..k -> ArgStrings] : k \in 0..MaxArgs}

\* executable_path_ and the literal "strace", by bytes no argument holds
ExecutablePath == <<3, 4>>
StraceName == <<5>>

\* the null pointer that ends the vector
NullPtr == "nullptr"

\* std::string::c_str()
CStr(s) == Append(s, 0)

\* const_cast<char*>(arg.c_str()) pushed for every string of a list, in the
\* order of the list
CStrs(list) == [i \in 1..Len(list) |-> CStr(list[i])]

\* strace_args with the executable path pushed before the trace flags
StraceArgs_PathBeforeOptions ==
    <<StraceName>> \o <<ExecutablePath>> \o strace_options \o args

\* strace_args: "strace", the trace flags, the executable path, then the
\* arguments inserted at the end
StraceArgs ==
    <<StraceName>> \o strace_options \o <<ExecutablePath>> \o args

\* the bytes of a C string: those before its first NUL
UpToNul(c) ==
    Take(c, CHOOSE n \in 0..Len(c) :
                /\ n < Len(c) => c[n + 1] = 0
                /\ \A i \in 1..n : c[i] # 0)

\* what exec makes of the vector: the entries before the first null pointer
ArgvOf(vec) ==
    LET n == CHOOSE k \in 0..Len(vec) :
                 /\ k < Len(vec) => vec[k + 1] = NullPtr
                 /\ \A i \in 1..k : vec[i] # NullPtr
    IN  [i \in 1..n |-> UpToNul(vec[i])]

\* execute_process builds exec_args: the executable path, the arguments,
\* the null pointer
PrepareArgsPlain ==
    /\ ~use_strace
    /\ exec_args = <<>>
    /\ exec_args' = <<CStr(ExecutablePath)>> \o CStrs(args) \o <<NullPtr>>
    /\ UNCHANGED <<strace_options, args, argv, failure>>
    /\ UNCHANGED <<runnerVars, expectVars, concVars>>
    /\ UNCHANGED <<configVars, parentVars, childVars, pipeVars, timeVars,
                   histVars>>

\* execute_with_strace builds strace_args, then exec_args from it
PrepareArgsStrace ==
    /\ use_strace
    /\ exec_args = <<>>
    /\ exec_args' = CStrs(StraceArgs) \o <<NullPtr>>
    /\ UNCHANGED <<strace_options, args, argv, failure>>
    /\ UNCHANGED <<runnerVars, expectVars, concVars>>
    /\ UNCHANGED <<configVars, parentVars, childVars, pipeVars, timeVars,
                   histVars>>

\* execv(executable_path_.c_str(), exec_args.data()), or
\* execvp("strace", exec_args.data()), in the child
ExecArgs ==
    /\ exec_args # <<>>
    /\ argv = <<>>
    /\ argv' = ArgvOf(exec_args)
    /\ UNCHANGED <<strace_options, args, exec_args, failure>>
    /\ UNCHANGED <<runnerVars, expectVars, concVars>>
    /\ UNCHANGED <<configVars, parentVars, childVars, pipeVars, timeVars,
                   histVars>>

\* a call in either mode, with any trace flags and any arguments
ArgvInit ==
    /\ use_strace \in BOOLEAN
    /\ capture_stderr = TRUE
    /\ stdin_data = NoData
    /\ pc = "call"
    /\ pfds = {}
    /\ nWritten = 0
    /\ stdout_open = TRUE
    /\ stderr_open = TRUE
    /\ result = ExecutionResult
    /\ thrown = "none"
    /\ cstate = "none"
    /\ cstatus = NoStatus
    /\ cexec = "none"
    /\ cfds = {}
    /\ dfds = {}
    /\ inPipe = <<>>
    /\ outPipe = <<>>
    /\ errPipe = <<>>
    /\ waited = 0
    /\ elapsed = 0
    /\ outWritten = <<>>
    /\ errWritten = <<>>
    /\ childRead = <<>>
    /\ killSent = FALSE
    /\ waitFailed = FALSE
    /\ cstateAtExpiry = "none"
    /\ path_status = Executable
    /\ syntax_ = "Intel"
    /\ reused = FALSE
    /\ expected = ExpectedOutput
    /\ matched = NotMatched
    /\ description = NotDescribed
    /\ NoThreads
    /\ strace_options \in ArgLists
    /\ args \in ArgLists
    /\ exec_args = <<>>
    /\ argv = <<>>
    /\ failure = NoFailure

ArgvNext ==
    \/ PrepareArgsPlain
    \/ PrepareArgsStrace
    \/ ExecArgs

ArgvSpec == ArgvInit /\ [][ArgvNext]_vars

(***************************************************************************)
(* assert_output: one call of run_test, which is one call of               *)
(* execute_process, then the comparison of the result with the expectation *)
(* of the caller and, when it does not match, a test failure with a        *)
(* message.  The execution time in the message is left out, as it is in    *)
(* ExecutionResult.                                                        *)
(***************************************************************************)
\* the expectations of the caller: exit code 0 with the first byte of the
\* child as the exact stdout, and the first byte of the child's stderr
\* required of stderr
Expectations ==
    {[ExpectedOutput EXCEPT !.expected_exit_code = SomeCode(0),
                            !.exact_stdout = Some(<<OutByte(1)>>)],
     [ExpectedOutput EXCEPT !.stderr_contains = <<<<ErrByte(1)>>>>]}

\* what assert_output writes to error_msg; r is the result it describes
ErrorMsg(r) ==
    [executable |-> ExecutablePath, syntax |-> syntax_, arguments |-> args,
     description |-> GetMismatchDescription(expected, r)]

\* assert_output describing a default-constructed result in its message
AssertOutput_DescribesDefault ==
    /\ pc = "done"
    /\ pc' = "asserted"
    /\ failure' = IF ~Matches(expected, result)
                  THEN [failed |-> TRUE, message |-> ErrorMsg(ExecutionResult)]
                  ELSE NoFailure
    /\ UNCHANGED <<strace_options, args, exec_args, argv>>
    /\ UNCHANGED <<pfds, nWritten, stdout_open, stderr_open, result, thrown>>
    /\ UNCHANGED <<runnerVars, expectVars, concVars>>
    /\ UNCHANGED <<configVars, childVars, pipeVars, timeVars, histVars>>

\* assert_output once run_test has returned: FAIL() with the message when
\* expected.matches(result) is false, and nothing otherwise
AssertOutput ==
    /\ pc = "done"
    /\ pc' = "asserted"
    /\ failure' = IF ~Matches(expected, result)
                  THEN [failed |-> TRUE, message |-> ErrorMsg(result)]
                  ELSE NoFailure
    /\ UNCHANGED <<strace_options, args, exec_args, argv>>
    /\ UNCHANGED <<pfds, nWritten, stdout_open, stderr_open, result, thrown>>
    /\ UNCHANGED <<runnerVars, expectVars, concVars>>
    /\ UNCHANGED <<configVars, childVars, pipeVars, timeVars, histVars>>

\* assert_output is entered: run_test is about to call execute_process
AssertInit ==
    /\ use_strace \in BOOLEAN
    /\ capture_stderr \in BOOLEAN
    /\ stdin_data \in StdinInputs
    /\ pc = "call"
    /\ pfds = {}
    /\ nWritten = 0
    /\ stdout_open = TRUE
    /\ stderr_open = TRUE
    /\ result = ExecutionResult
    /\ thrown = "none"
    /\ cstate = "none"
    /\ cstatus = NoStatus
    /\ cexec = "none"
    /\ cfds = {}
    /\ dfds = {}
    /\ inPipe = <<>>
    /\ outPipe = <<>>
    /\ errPipe = <<>>
    /\ waited = 0
    /\ elapsed = 0
    /\ outWritten = <<>>
    /\ errWritten = <<>>
    /\ childRead = <<>>
    /\ killSent = FALSE
    /\ waitFailed = FALSE
    /\ cstateAtExpiry = "none"
    /\ path_status = Executable
    /\ syntax_ = "Intel"
    /\ reused = FALSE
    /\ expected \in Expectations
    /\ matched = NotMatched
    /\ description = NotDescribed
    /\ NoThreads
    /\ NoCaller

AssertNext ==
    \/ Next
    \/ AssertOutput

AssertSpec == AssertInit /\ [][AssertNext]_vars

(***************************************************************************)
(* ExpectedOutput on results as execute returns them, with the two fields  *)
(* that say how the call went: execution_time and timed_out.               *)
(***************************************************************************)
\* execution_time of a result, in ticks: none, or the whole timeout
Durations == {0, Timeout}

\* struct ExecutionResult with all its five fields: either exit code, a
\* stdout among the strings given to the setters, a stderr of at most one
\* byte, any duration, timed out or not
TimedResults ==
    [exit_code : {0, 1}, stdout_output : Needles,
     stderr_output : {<<>>, <<0>>}, execution_time : Durations,
     timed_out : BOOLEAN]

\* any such result in the hands of the caller, and an expectation as
\* constructed
TimedInit ==
    /\ use_strace = FALSE
    /\ capture_stderr = TRUE
    /\ stdin_data = NoData
    /\ pc = "done"
    /\ pfds = {}
    /\ nWritten = 0
    /\ stdout_open = FALSE
    /\ stderr_open = FALSE
    /\ result \in TimedResults
    /\ thrown = "none"
    /\ cstate = "reaped"
    /\ cstatus = Exited(result.exit_code)
    /\ cexec = "ok"
    /\ cfds = {}
    /\ dfds = {}
    /\ inPipe = <<>>
    /\ outPipe = <<>>
    /\ errPipe = <<>>
    /\ waited = 0
    /\ elapsed = 0
    /\ outWritten = result.stdout_output
    /\ errWritten = result.stderr_output
    /\ childRead = <<>>
    /\ killSent = result.timed_out
    /\ waitFailed = FALSE
    /\ cstateAtExpiry = "none"
    /\ path_status = Executable
    /\ syntax_ = "Intel"
    /\ reused = FALSE
    /\ expected = ExpectedOutput
    /\ matched = NotMatched
    /\ description = NotDescribed
    /\ NoThreads
    /\ NoCaller

TimedSpec == TimedInit /\ [][MatchNext]_vars

(***************************************************************************)
(* Properties.                                                             *)
(***************************************************************************)
\* the call has returned an ExecutionResult to its caller
Returned == pc = "done"
\* the call has left by an exception
Threw == pc = "threw"

\* the bytes of the stdin payload (none when the payload is absent)
StdinBytes == IF stdin_data.has_value THEN stdin_data.data ELSE <<>>

\* C1: every execute call eventually returns, with a result or an error,
\* whatever the child does and whatever the stdin payload; for that, a call
\* that has reached the write of stdin must eventually get past it: the
\* parent writing stdin is never blocked forever.
C1_EveryCallReturns == (pc = "write_stdin") ~> (pc # "write_stdin")

\* C2: in every returned result of a call none of whose waits failed,
\* timed_out is true iff the timeout budget, counted once from the start of
\* the read loop, ran out while a monitored stream had not reached
\* end-of-stream: a result that timed out has used up the budget, and a call
\* still waiting on a monitored stream after the budget times out.  (A
\* stream that becomes readable at the very tick the budget ends may go
\* either way.)
C2_TimedOutIffBudgetExpired ==
    (Returned /\ ~waitFailed) =>
        /\ result.timed_out => elapsed >= Timeout
        /\ elapsed > Timeout => result.timed_out
\* the kill encoding of the exit code: 128 + SIGKILL
KilledCode == SignalBase + SIGKILL

\* the child has written nothing to any stream the call monitors
Silent ==
    /\ outWritten = <<>>
    /\ (use_strace \/ capture_stderr) => errWritten = <<>>

\* C3: when the child writes nothing to any monitored stream and is still
\* there, holding the streams open, when the wait expires, the result has
\* timed_out = true, the kill has been sent and exit_code is 137.
C3_SilentChildKilled ==
    (Returned /\ Silent /\ cstateAtExpiry \in {"forked", "running"}) =>
        /\ result.timed_out
        /\ killSent
        /\ result.exit_code = KilledCode

\* C4: in every result with timed_out = true, exit_code is the encoding of
\* the runner's kill, 137.
C4_TimedOutExitCodeIsKill ==
    (Returned /\ result.timed_out) => result.exit_code = KilledCode

\* C5: the exit_code of a returned result is the child's exit value when the
\* reaped status says it exited, and 128 + N when the status says it was
\* terminated by signal N, in both variants and whoever sent the signal.
C5_ExitCodeDecoded ==
    Returned =>
        \/ /\ cstatus.kind = "exited"
           /\ cstatus.val \in 0..255
           /\ result.exit_code = cstatus.val
        \/ /\ cstatus.kind = "signaled"
           /\ result.exit_code = 128 + cstatus.val

\* a traced call returns the code of a signal that was not the runner's
C5_Witness ==
    /\ Returned
    /\ use_strace
    /\ ~killSent
    /\ cstatus.kind = "signaled"
    /\ cstatus.val \in ExternalSignals
    /\ result.exit_code = 143

\* C6: the runner sends the kill only when the timeout has expired: whenever
\* the kill has been sent, timed_out is true.
C6_KillOnlyOnTimeout == killSent => result.timed_out

\* C7: a result with timed_out = false holds in stdout_output every byte the
\* child wrote to standard output, in order, and with capture_stderr enabled
\* holds in stderr_output every byte written to standard error.
C7_OutputComplete ==
    (Returned /\ ~result.timed_out) =>
        /\ result.stdout_output = outWritten
        /\ capture_stderr => result.stderr_output = errWritten

\* the parent is past the write of stdin
PastWrite == pc \in {"select", "kill", "waitpid", "done"}

\* C8: the bytes the child has read or can still read from its standard
\* input are, in order, the bytes of the payload written so far; once the
\* parent is past the write the whole payload has been written (unless the
\* child had given up its standard input) and the write end is closed, so
\* end-of-input follows the payload, and follows at once when the payload is
\* absent or empty.
C8_StdinDelivered ==
    /\ childRead \o inPipe = Take(StdinBytes, nWritten)
    /\ PastWrite =>
        /\ ~HasHolder("in_w")
        /\ nWritten = Len(StdinBytes) \/ "in_r" \notin cfds

\* a payload longer than the pipe has been written in full, the child having
\* read part of it while the parent was still writing
C8_Witness ==
    /\ pc = "select"
    /\ Len(StdinBytes) > PipeCap
    /\ nWritten = Len(StdinBytes)
    /\ childRead # <<>>
    /\ "in_r" \in cfds

\* C9: when the allocation of a pipe or fork() fails, the call throws, no
\* child exists, no result is produced, and nothing is tried again.
C9_SpawnFailureThrows ==
    /\ [](Threw => /\ thrown \in {PipeError, ForkError}
                   /\ cstate = "none"
                   /\ result = ExecutionResult)
    /\ [][((pc = "call" /\ pfds' # AllFds) \/ (pc = "fork" /\ cstate' = "none"))
            => Threw']_vars
    /\ [][~Threw]_vars

\* fork() has failed and the call has thrown
C9_Witness == Threw /\ thrown = ForkError /\ pfds = {}

\* C10: in trace mode, when the trace utility cannot be executed, the call
\* returns no ExecutionResult.
C10_MissingTraceUtilityThrows ==
    (use_strace /\ cexec = "exec_failed") => ~Returned

\* a runner exists and no step of a call is under way
Constructed == pc \notin {"construct", "setup_error"}

\* C11: the constructor yields a runner exactly when the path exists, is a
\* regular file and may be executed, and otherwise throws one of the three
\* setup errors; after a setup error nothing can be called; and the checks
\* are made by the constructor only: no step of an execute call makes them
\* again or raises a setup error, whatever has become of the file.
C11_ConstructorChecksOnce ==
    /\ [][pc = "construct" =>
            /\ pc' = "call" <=> /\ path_status.exists
                                /\ path_status.is_regular_file
                                /\ path_status.x_ok
            /\ pc' # "call" => pc' = "setup_error" /\ thrown' \in SetupErrors
         ]_vars
    /\ [][pc # "setup_error"]_vars
    /\ [][Constructed => Constructed' /\ thrown' \notin SetupErrors]_vars

\* a call on a runner whose file was removed after construction has run to
\* its end without any check of the path: the child failed to execute it
C11_Witness ==
    /\ Returned
    /\ path_status = Missing
    /\ ~use_strace
    /\ result.exit_code = ExecFailureCode

\* the criteria of an expectation e, each as it is specified, on a result r
ExitCodeHolds(e, r) ==
    e.expected_exit_code.has_value =>
        r.exit_code = e.expected_exit_code.value
ExactStdoutHolds(e, r) ==
    e.exact_stdout.has_value => r.stdout_output = e.exact_stdout.data
ExactStderrHolds(e, r) ==
    e.exact_stderr.has_value => r.stderr_output = e.exact_stderr.data
StdoutPatternHolds(e, r, j) == Contains(r.stdout_output, e.stdout_contains[j])
StderrPatternHolds(e, r, j) == Contains(r.stderr_output, e.stderr_contains[j])

\* C12: the value matches returns is the conjunction of the criteria, each
\* taken by itself: the exit code if specified, the exact stdout if
\* specified, the exact stderr if specified, every pattern required of
\* stdout and every pattern required of stderr.
C12_MatchesIsConjunction ==
    matched.called =>
        matched.value =
            (/\ ExitCodeHolds(expected, result)
             /\ ExactStdoutHolds(expected, result)
             /\ ExactStderrHolds(expected, result)
             /\ \A j \in 1..Len(expected.stdout_contains) :
                    StdoutPatternHolds(expected, result, j)
             /\ \A j \in 1..Len(expected.stderr_contains) :
                    StderrPatternHolds(expected, result, j))

\* matches returned false for an expectation with the exit code and both
\* exact outputs specified and met, where only a pattern required of stderr
\* is missing
C12_Witness ==
    /\ matched.called
    /\ ~matched.value
    /\ expected.expected_exit_code.has_value
    /\ expected.exact_stdout.has_value
    /\ expected.exact_stderr.has_value
    /\ ExitCodeHolds(expected, result)
    /\ ExactStdoutHolds(expected, result)
    /\ ExactStderrHolds(expected, result)
    /\ expected.stdout_contains # <<>>
    /\ AllFound(result.stdout_output, expected.stdout_contains)
    /\ ~AllFound(result.stderr_output, expected.stderr_contains)

\* C13: the text get_mismatch_description returns is empty exactly when
\* matches returns true, for the same expectation and the same result.
C13_EmptyIffMatches ==
    (matched.called /\ description.called) =>
        (description.entries = <<>> <=> matched.value)

\* both were called on an expectation whose only failing criterion is the
\* exit code: matches is false and the text is not empty
C13_Witness ==
    /\ matched.called
    /\ description.called
    /\ ~matched.value
    /\ ~ExitCodeHolds(expected, result)
    /\ Len(description.entries) = 1

\* the positions of a pattern list whose pattern is missing from a text
MissingAt(text, patterns) ==
    {j \in 1..Len(patterns) : ~Contains(text, patterns[j])}

\* how many of the specified criteria of e the result r violates, a required
\* pattern counting once for each time it is listed
Violated(e, r) ==
    (IF ExitCodeHolds(e, r) THEN 0 ELSE 1)
    + (IF ExactStdoutHolds(e, r) THEN 0 ELSE 1)
    + (IF ExactStderrHolds(e, r) THEN 0 ELSE 1)
    + Cardinality(MissingAt(r.stdout_output, e.stdout_contains))
    + Cardinality(MissingAt(r.stderr_output, e.stderr_contains))

\* the entries of the returned text that carry the name n
EntriesNamed(n) ==
    {i \in 1..Len(description.entries) : description.entries[i].name = n}

\* C14: the text of one get_mismatch_description call has one entry for each
\* specified criterion that fails, all of them and not the first only, a
\* missing pattern having an entry of its own; each entry names its
\* criterion with the expected and the actual value; and there is no entry
\* for a criterion that holds or is not specified.
C14_EveryFailureReported ==
    description.called =>
        LET d == description.entries
            e == expected
            r == result
        IN  /\ Len(d) = Violated(e, r)
            /\ IF ExitCodeHolds(e, r)
               THEN EntriesNamed("Exit code mismatch") = {}
               ELSE \E i \in 1..Len(d) :
                       d[i] = Entry("Exit code mismatch",
                                    <<e.expected_exit_code.value>>,
                                    <<r.exit_code>>)
            /\ IF ExactStdoutHolds(e, r)
               THEN EntriesNamed("Stdout mismatch") = {}
               ELSE \E i \in 1..Len(d) :
                       d[i] = Entry("Stdout mismatch", e.exact_stdout.data,
                                    r.stdout_output)
            /\ IF ExactStderrHolds(e, r)
               THEN EntriesNamed("Stderr mismatch") = {}
               ELSE \E i \in 1..Len(d) :
                       d[i] = Entry("Stderr mismatch", e.exact_stderr.data,
                                    r.stderr_output)
            /\ Cardinality(EntriesNamed("Stdout missing pattern"))
                 = Cardinality(MissingAt(r.stdout_output, e.stdout_contains))
            /\ \A j \in MissingAt(r.stdout_output, e.stdout_contains) :
                 \E i \in 1..Len(d) :
                    d[i] = Entry("Stdout missing pattern",
                                 e.stdout_contains[j], r.stdout_output)
            /\ Cardinality(EntriesNamed("Stderr missing pattern"))
                 = Cardinality(MissingAt(r.stderr_output, e.stderr_contains))
            /\ \A j \in MissingAt(r.stderr_output, e.stderr_contains) :
                 \E i \in 1..Len(d) :
                    d[i] = Entry("Stderr missing pattern",
                                 e.stderr_contains[j], r.stderr_output)

\* one call has reported five failures at once: the exit code, both exact
\* outputs and two patterns
C14_Witness ==
    /\ description.called
    /\ Len(description.entries) = 5
    /\ Patterns = 2

\* a sequence without its last element
Front(s) == SubSeq(s, 1, Len(s) - 1)

\* C15: for a fixed result, a pattern appended to stdout_contains or to
\* stderr_contains never turns a non-match into a match: if the expectation
\* matches after the append, it matched before.
C15_ContainsMonotonic ==
    [][(\/ expected'.stdout_contains # expected.stdout_contains
        \/ expected'.stderr_contains # expected.stderr_contains)
       => (Matches(expected', result') => Matches(expected, result))]_vars

\* an expectation that matched the result stops matching it with the
\* pattern just appended to stdout_contains
C15_Witness ==
    /\ expected.stdout_contains # <<>>
    /\ ~Matches(expected, result)
    /\ Matches([expected EXCEPT !.stdout_contains = Front(@)], result)

\* no criterion of e speaks of the exit code, of stdout, of stderr
ExitCodeFree(e) == ~e.expected_exit_code.has_value
StdoutFree(e) == ~e.exact_stdout.has_value /\ e.stdout_contains = <<>>
StderrFree(e) == ~e.exact_stderr.has_value /\ e.stderr_contains = <<>>

\* C16: what an expectation does not specify is not constrained: the
\* expectation with no criterion matches every result, and the value of
\* matches is the same for every result that differs from the given one
\* only in fields no criterion speaks of, be they non-empty outputs or
\* non-zero exit codes.
C16_AbsentIsUnconstrained ==
    matched.called =>
        /\ expected = ExpectedOutput => matched.value
        /\ \A r \in Results :
            (/\ ExitCodeFree(expected) \/ r.exit_code = result.exit_code
             /\ StdoutFree(expected)
                    \/ r.stdout_output = result.stdout_output
             /\ StderrFree(expected)
                    \/ r.stderr_output = result.stderr_output)
            => Matches(expected, r) = matched.value

\* the expectation with no criterion has matched a result with a non-zero
\* exit code and output on both streams
C16_Witness ==
    /\ matched.called
    /\ matched.value
    /\ expected = ExpectedOutput
    /\ result.exit_code # 0
    /\ result.stdout_output # <<>>
    /\ result.stderr_output # <<>>

\* C17: the traced runner and the plain runner act alike from the same
\* state: before a select() both would monitor the same descriptors, the
\* configured capture_stderr included; the kill is reached only where the
\* plain runner reaches it, after a wait that expired; and a result
\* returned with capture_stderr off holds no stderr bytes.
C17_VariantsAgree ==
    /\ pc = "select" =>
        FdSetStrace(stdout_open, stderr_open)
            = FdSetPlain(stdout_open, stderr_open)
    /\ pc = "kill" => result.timed_out
    /\ (Returned /\ ~capture_stderr) => result.stderr_output = <<>>

\* C18: in trace mode, after a call has returned with timed_out = true, the
\* target program, the descendant the trace utility started, is no longer
\* running.
C18_KillReachesTarget ==
    (Returned /\ use_strace /\ result.timed_out) => dfds = {}

C20_CallsOwnTheirChannels ==
    \A c \in Calls :
        /\ \A d \in Calls \ {c} : kfds[d] \cap EndsOf(c) = {}
        /\ (tpc[c] = "select" /\ kstate[c] = "zombie" /\ tpipe[c] = <<>>)
            => ~Held(<<c, "out_w">>) /\ ~Held(<<c, "err_w">>)
        /\ \A i \in 1..Len(tresult[c].stdout_output) :
            tresult[c].stdout_output[i] = CallByte(c)

\* C21: at every point of a call and in every returned result, timed out or
\* not, stdout_output is a prefix of what the child has written to standard
\* output and stderr_output a prefix of what it has written to standard
\* error; and each accumulator only grows, by appending.
C21_OutputIsPrefix ==
    /\ [](/\ IsPrefix(result.stdout_output, outWritten)
          /\ IsPrefix(result.stderr_output, errWritten))
    /\ [][/\ IsPrefix(result.stdout_output, result'.stdout_output)
          /\ IsPrefix(result.stderr_output, result'.stderr_output)]_vars

\* a timed-out call has returned part, and not all, of what its child wrote
\* to standard output
C21_Witness ==
    /\ Returned
    /\ result.timed_out
    /\ result.stdout_output # <<>>
    /\ Len(result.stdout_output) < Len(outWritten)

\* C22: there is no drain on timeout: from the moment a wait has expired no
\* read is made, so the outputs of the result stay what they were when the
\* wait expired, whatever the child has written since and is still in the
\* pipes.
C22_NoDrainAfterTimeout ==
    [][result.timed_out =>
          /\ result'.stdout_output = result.stdout_output
          /\ result'.stderr_output = result.stderr_output]_vars

\* a timed-out call has returned while bytes its child wrote after the wait
\* expired were still in the stdout pipe
C22_Witness ==
    /\ Returned
    /\ result.timed_out
    /\ outPipe # <<>>

\* C23: the channels a call waits on are stdout while it is open, and stderr
\* while it is open exactly when capture_stderr is enabled; with
\* capture_stderr disabled nothing is read from stderr, so stderr_output
\* stays empty, and the loop does not wait for stderr: the call is never in
\* select() with stdout at end-of-stream.
C23_MonitoredChannels ==
    /\ pc = "select" =>
        FdSet(stdout_open, stderr_open)
            = (IF stdout_open THEN {"out_r"} ELSE {})
              \cup (IF stderr_open /\ capture_stderr THEN {"err_r"} ELSE {})
    /\ ~capture_stderr =>
        /\ result.stderr_output = <<>>
        /\ pc = "select" => stdout_open

\* C24: whenever a call has returned a result its child has terminated and
\* has been reaped; the child is reaped once, by the waitpid() of the call,
\* after it has terminated, and is not touched afterwards; and exit_code is
\* written only in that step, from the status the reap delivered.
C24_ChildReapedOnce ==
    /\ [](Returned => cstate = "reaped")
    /\ [][cstate' = "reaped" =>
            \/ cstate = "reaped"
            \/ cstate = "zombie" /\ pc = "waitpid" /\ pc' = "done"]_vars
    /\ [][cstate = "reaped" => cstate' = "reaped" /\ pc' = "done"]_vars
    /\ [][result'.exit_code # result.exit_code =>
            /\ cstate = "zombie" /\ cstate' = "reaped"
            /\ result'.exit_code = DecodeStatus(cstatus, result.exit_code)
         ]_vars

\* a call that killed its child has returned after reaping it
C24_Witness ==
    /\ Returned
    /\ killSent
    /\ cstate = "reaped"
    /\ cstatus = Signaled(SIGKILL)

\* C25: when chdir() into the configured working directory fails in the
\* child, the program is never executed and the chdir is not tried again,
\* and the call does not return an ExecutionResult.
C25_ChdirFailureIsFatal ==
    /\ [][cexec = "chdir_failed" =>
            cexec' = "chdir_failed" /\ cstate' \in {"zombie", "reaped"}]_vars
    /\ [](cexec = "chdir_failed" => ~Returned)

\* C26: the command line the executed program receives is, in trace mode,
\* the trace utility, the configured trace flags in their order, the
\* executable path, and the caller's arguments in their order; in plain
\* mode the executable path and the caller's arguments in their order;
\* whatever the flags and the arguments, empty lists and empty strings
\* included.
C26_CommandLine ==
    argv # <<>> =>
        LET nopt == IF use_strace THEN Len(strace_options) ELSE 0
            lead == IF use_strace THEN nopt + 1 ELSE 0
        IN  /\ Len(argv) = lead + 1 + Len(args)
            /\ use_strace => argv[1] = StraceName
            /\ \A i \in 1..nopt : argv[1 + i] = strace_options[i]
            /\ argv[lead + 1] = ExecutablePath
            /\ \A i \in 1..Len(args) : argv[lead + 1 + i] = args[i]

\* a traced call with two different flags and two arguments, the first of
\* them the empty string, has executed its command line
C26_Witness ==
    /\ argv # <<>>
    /\ use_strace
    /\ Len(strace_options) = MaxArgs
    /\ strace_options[1] # strace_options[2]
    /\ Len(args) = MaxArgs
    /\ args[1] = <<>>
    /\ args[2] # <<>>

\* assert_output has come to its end without an exception
Asserted == pc = "asserted"

\* C27: a call of assert_output runs one child, which has terminated and
\* been reaped when the call ends; it reports a test failure exactly when
\* matches is false of the result of that child, the message carrying the
\* whole text get_mismatch_description gives for that same result; when the
\* result matches, nothing is reported; and no failure is reported before
\* the comparison.
C27_AssertOutput ==
    /\ [](Asserted =>
            /\ cstate = "reaped"
            /\ failure.failed <=> ~Matches(expected, result)
            /\ failure.failed =>
                   /\ failure.message.description
                          = GetMismatchDescription(expected, result)
                   /\ Len(failure.message.description)
                          = Violated(expected, result)
                   /\ failure.message.description # <<>>
            /\ ~failure.failed => failure = NoFailure)
    /\ [](~Asserted => failure = NoFailure)
    /\ [][/\ cstate' = "forked" => cstate \in {"none", "forked"}
          /\ cstate # "none" => cstate' # "none"]_vars
    /\ [][Asserted => UNCHANGED <<pc, result, cstate, failure>>]_vars

\* a call whose child was killed on the timeout without having written
\* anything has failed on the exit code and on stdout at once
C27_Witness ==
    /\ Asserted
    /\ failure.failed
    /\ Len(failure.message.description) = 2
    /\ result.timed_out
    /\ result.stdout_output = <<>>

\* C28: once the read loop has ended, whatever ended it, the waitpid() that
\* follows returns and the call ends with a result; and when the loop has
\* ended with the child still running, the child has been sent SIGKILL.
C28_FinalWaitCompletes ==
    /\ [](pc = "waitpid" /\ cstate \in {"forked", "running"} => killSent)
    /\ (pc = "waitpid") ~> Returned

\* C29: when a call has returned or thrown, the parent holds none of the
\* pipe ends the call opened, whichever way the call ended.
C29_NoDescriptorLeft ==
    (Returned \/ Threw) => pfds = {}

\* C30: when the parent comes to write the stdin payload and no process
\* holds the read end of the stdin pipe any more, the child having exited or
\* closed its stdin, the write does not end the calling process and does not
\* make the call throw: the call goes on to the read loop.
C30_WriteWithoutReaderAbsorbed ==
    [][(pc = "write_stdin" /\ HasStdin /\ ~HasHolder("in_r") /\ pc' # pc) =>
           /\ pc' = "select"
           /\ thrown' = "none"
           /\ "in_w" \notin pfds']_vars

\* two results agree on the exit code and on both outputs
SameOutcome(r, s) ==
    /\ r.exit_code = s.exit_code
    /\ r.stdout_output = s.stdout_output
    /\ r.stderr_output = s.stderr_output

\* C31: matches and get_mismatch_description look at the exit code, the
\* stdout and the stderr of a result only: every result that agrees with
\* the given one on these three, whatever its timed_out and its execution
\* time, gets the value matches returned and the text
\* get_mismatch_description returned, for every expectation.
C31_TimeoutAndDurationIgnored ==
    \A r \in TimedResults :
        SameOutcome(r, result) =>
            /\ matched.called => Matches(expected, r) = matched.value
            /\ description.called =>
                   GetMismatchDescription(expected, r) = description.entries

\* a result that timed out has matched an expectation that specifies the
\* exit code and the exact stdout, and its description is empty
C31_Witness ==
    /\ matched.called
    /\ matched.value
    /\ description.called
    /\ description.entries = <<>>
    /\ result.timed_out
    /\ result.execution_time = Timeout
    /\ expected.expected_exit_code.has_value
    /\ expected.exact_stdout.has_value

====
